---- MODULE Spec2Model ----
(***************************************************************************)
(* The transaction input of the node (input.js): construction, type,      *)
(* redeem and address resolution, the binary codec and the JSON codec.     *)
(*                                                                         *)
(* JavaScript numbers that may leave the 32-bit range are kept as a pair   *)
(* <<hi, lo>> standing for hi * 2^16 + lo, lo in 0..65535, so that         *)
(* 0xffffffff, 2^32 and -1 are all representable and a 4-byte write keeps  *)
(* its width.                                                              *)
(***************************************************************************)
EXTENDS Integers, Sequences, FiniteSets, TLC

VARIABLES inp, cls, last

vars == <<inp, cls, last>>

\* ------------------------------------------------------------------ bounds

\* Longest script whose bytes are enumerated freely.
MaxScriptLen == 2

\* Largest number of outputs of a transaction handed to fromTX.
MaxOutputs == 2

\* Largest number of witness items.
MaxWitnessItems == 1

\* ----------------------------------------------------------------- numbers

Num(hi, lo) == <<hi, lo>>

FromNat(n) == <<n \div 65536, n % 65536>>

NumLt(a, b) == a[1] < b[1] \/ (a[1] = b[1] /\ a[2] < b[2])

U32_MAX == Num(65535, 65535)

RBF_LIMIT == Num(65535, 65534)

\* A JavaScript value in a numeric position: absent (null/undefined), a
\* number, or something that is not a number.
Absent == [kind |-> "absent", val |-> Num(0, 0)]

NotANumber == [kind |-> "string", val |-> Num(0, 0)]

JsNum(v) == [kind |-> "number", val |-> v]

\* util.isNumber as input.js relies on it: the value is a well-formed
\* unsigned integer.
isNumber(x) == x.kind = "number" /\ x.val[1] >= 0

\* ------------------------------------------------------------- bytes, hex

Take(s, n) == SubSeq(s, 1, n)

Drop(s, n) == SubSeq(s, n + 1, Len(s))

\* A hex string is a sequence of nibbles; two nibbles make a byte.
ToHex(bytes) ==
  [i \in 1..(2 * Len(bytes)) |->
     IF i % 2 = 1 THEN bytes[(i + 1) \div 2] \div 16
                  ELSE bytes[i \div 2] % 16]

FromHex(hex) ==
  [i \in 1..(Len(hex) \div 2) |-> 16 * hex[2 * i - 1] + hex[2 * i]]

\* util.revHex: the byte pairs of a hex string in reverse order.
revHex(hex) ==
  [i \in 1..Len(hex) |->
     hex[2 * ((Len(hex) \div 2) - ((i + 1) \div 2)) + 1 + ((i - 1) % 2)]]

\* BufferWriter.writeU32: four bytes, little-endian, of the value mod 2^32.
writeU32(v) ==
  <<v[2] % 256, v[2] \div 256, (v[1] % 65536) % 256, (v[1] % 65536) \div 256>>

\* BufferReader.readU32 over four bytes.
readU32(b) == Num(b[3] + 256 * b[4], b[1] + 256 * b[2])

\* The variable-width length prefix.
sizeVarint(n) ==
  IF n < 253 THEN 1 ELSE IF n <= 65535 THEN 3 ELSE 5

writeVarint(n) ==
  IF n < 253 THEN <<n>>
  ELSE IF n <= 65535 THEN <<253, n % 256, n \div 256>>
  ELSE <<254, n % 256, (n \div 256) % 256, (n \div 65536) % 256, n \div 16777216>>

writeVarBytes(bytes) == writeVarint(Len(bytes)) \o bytes

\* BufferReader.readVarint on the bytes left: [ok, value, size].
readVarint(b) ==
  IF Len(b) < 1 THEN [ok |-> FALSE, value |-> 0, size |-> 0]
  ELSE IF b[1] < 253 THEN [ok |-> TRUE, value |-> b[1], size |-> 1]
  ELSE IF b[1] = 253 THEN
    IF Len(b) < 3 THEN [ok |-> FALSE, value |-> 0, size |-> 0]
    ELSE [ok |-> TRUE, value |-> b[2] + 256 * b[3], size |-> 3]
  ELSE [ok |-> FALSE, value |-> 0, size |-> 0]

\* BufferReader.readVarBytes on the bytes left: [ok, data, size].
readVarBytes(b) ==
  LET v == readVarint(b) IN
  IF ~v.ok \/ Len(b) < v.size + v.value
    THEN [ok |-> FALSE, data |-> <<>>, size |-> 0]
    ELSE [ok |-> TRUE, data |-> SubSeq(b, v.size + 1, v.size + v.value),
          size |-> v.size + v.value]

\* ------------------------------------------------------------------ script

\* Script type tags and the table of their names (constants.scriptTypesByVal).
NONSTANDARD == 0

PUBKEYHASH == 1

SCRIPTHASH == 2

MULTISIG == 3

WITNESSSCRIPTHASH == 4

scriptTypesByVal ==
  <<"NONSTANDARD", "PUBKEYHASH", "SCRIPTHASH", "MULTISIG", "WITNESSSCRIPTHASH">>

\* String.prototype.toLowerCase on the names of the table.
toLowerCase(name) ==
  CASE name = "NONSTANDARD" -> "nonstandard"
    [] name = "PUBKEYHASH" -> "pubkeyhash"
    [] name = "SCRIPTHASH" -> "scripthash"
    [] name = "MULTISIG" -> "multisig"
    [] name = "WITNESSSCRIPTHASH" -> "witnessscripthash"
    [] OTHER -> name

TypeName(tag) == toLowerCase(scriptTypesByVal[tag + 1])

\* A script met as an output script or as a redeem script: what it is called
\* and the tag its getType() gives.  NoScript is null/undefined.
NoScript == [name |-> "undefined", type |-> -1]

P2SHScript == [name |-> "p2sh", type |-> SCRIPTHASH]

P2WSHScript == [name |-> "p2wsh", type |-> WITNESSSCRIPTHASH]

P2PKHScript == [name |-> "p2pkh", type |-> PUBKEYHASH]

MultisigScript == [name |-> "multisig2of3", type |-> MULTISIG]

isScripthash(s) == s.type = SCRIPTHASH

isWitnessScripthash(s) == s.type = WITNESSSCRIPTHASH

\* No string value (a method that returns undefined).
NoValue == "undefined"

NoAddress == "undefined"

\* ---------------------------------------------------------------- outpoint

HashChars == 64

NULL_HASH == [i \in 1..HashChars |-> 0]

HashA == [i \in 1..HashChars |-> i % 16]

Outpoint(hash, index) == [hash |-> hash, index |-> index]

\* new Outpoint(): the null outpoint.
NewOutpoint == Outpoint(NULL_HASH, U32_MAX)

\* Outpoint.isNull: all-zero hash and index 0xffffffff.
isNull(o) == o.hash = NULL_HASH /\ o.index = U32_MAX

\* Outpoint.toWriter: 32 bytes of hash, then the index as u32.
OutpointToRaw(o) == FromHex(o.hash) \o writeU32(o.index)

\* Outpoint.toJSON / fromJSON: the hash reversed, the index as it is.
OutpointToJSON(o) == [present |-> TRUE, hash |-> revHex(o.hash), index |-> o.index]

OutpointFromJSON(j) == Outpoint(revHex(j.hash), j.index)

\* ----------------------------------------------------------------- witness

RECURSIVE WitnessItemsRaw(_)
WitnessItemsRaw(items) ==
  IF items = <<>> THEN <<>>
  ELSE writeVarBytes(Head(items)) \o WitnessItemsRaw(Tail(items))

\* Witness.toRaw: the item count, then each item length-prefixed.
WitnessToRaw(items) == writeVarint(Len(items)) \o WitnessItemsRaw(items)

RECURSIVE ReadItems(_, _)
ReadItems(b, n) ==
  IF n = 0 THEN <<>>
  ELSE LET r == readVarBytes(b) IN <<r.data>> \o ReadItems(Drop(b, r.size), n - 1)

WitnessFromRaw(b) == ReadItems(Drop(b, readVarint(b).size), readVarint(b).value)

\* ------------------------------------------------------------------- input

Input(prevout, script, sequence, witness) ==
  [prevout |-> prevout, script |-> script, sequence |-> sequence, witness |-> witness]

\* new Input() before any options are applied.
NewInput == Input(NewOutpoint, <<>>, U32_MAX, <<>>)

\* The outcome of a method that may throw: whether it returned, and the
\* instance as the call left it.
Ok(self) == [ok |-> TRUE, self |-> self]

Throw(self) == [ok |-> FALSE, self |-> self]

fromOptions(self, options) ==
  IF ~options.present \/ ~options.prevout.present THEN Throw(self)
  ELSE
    LET s1 == [self EXCEPT !.prevout = Outpoint(options.prevout.hash, options.prevout.index)]
        s2 == IF options.script.present THEN [s1 EXCEPT !.script = options.script.raw] ELSE s1
    IN IF options.sequence.kind # "absent" /\ ~isNumber(options.sequence) THEN Throw(s2)
       ELSE
         LET s3 == IF options.sequence.kind # "absent"
                     THEN [s2 EXCEPT !.sequence = options.sequence.val] ELSE s2
             s4 == IF options.witness.present
                     THEN [s3 EXCEPT !.witness = options.witness.items] ELSE s3
         IN Ok(s4)

isCoinbase(self) == isNull(self.prevout)

IsFinalFromLimit(self) == ~NumLt(self.sequence, RBF_LIMIT)

isFinal(self) == self.sequence = U32_MAX

isRBF(self) == NumLt(self.sequence, RBF_LIMIT)

\* ---------------------------------------------------------- resolution

\* The previous output handed to a query.  NoCoin is a call without one.
Coin(script, address) == [present |-> TRUE, script |-> script, address |-> address]

NoCoin == [present |-> FALSE, script |-> NoScript, address |-> NoAddress]

\* Coin.getType: the name of the type of the output script.
CoinGetType(coin) == TypeName(coin.script.type)

GetTypeCoinFirst(self, c, coin) ==
  IF coin.present THEN CoinGetType(coin)
  ELSE IF isCoinbase(self) THEN "coinbase"
  ELSE IF Len(self.witness) > 0 THEN TypeName(c.wInputType)
  ELSE TypeName(c.sInputType)

GetTypeScriptFirst(self, c, coin) ==
  IF isCoinbase(self) THEN "coinbase"
  ELSE IF coin.present THEN CoinGetType(coin)
  ELSE IF c.sInputType # NONSTANDARD THEN TypeName(c.sInputType)
  ELSE TypeName(c.wInputType)

\* c holds what the Script and the Witness of this input answer.
getType(self, c, coin) ==
  IF isCoinbase(self) THEN "coinbase"
  ELSE IF coin.present THEN CoinGetType(coin)
  ELSE IF Len(self.witness) > 0 THEN TypeName(c.wInputType)
  ELSE TypeName(c.sInputType)

GetRedeemKeepFirst(self, c, coin) ==
  IF isCoinbase(self) THEN NoScript
  ELSE IF ~coin.present THEN
    IF c.wShInput THEN c.wRedeem
    ELSE IF c.sShInput THEN c.sRedeem
    ELSE NoScript
  ELSE
    LET sh == isScripthash(coin.script)
        prev1 == IF sh THEN c.sRedeem ELSE coin.script
        redeem1 == IF sh THEN prev1 ELSE NoScript
    IN IF prev1 # NoScript /\ isWitnessScripthash(prev1) /\ c.wRedeem # NoScript
         THEN c.wRedeem
         ELSE redeem1

getRedeem(self, c, coin) ==
  IF isCoinbase(self) THEN NoScript
  ELSE IF ~coin.present THEN
    IF c.wShInput THEN c.wRedeem
    ELSE IF c.sShInput THEN c.sRedeem
    ELSE NoScript
  ELSE
    LET sh == isScripthash(coin.script)
        prev1 == IF sh THEN c.sRedeem ELSE coin.script
        redeem1 == IF sh THEN prev1 ELSE NoScript
    IN IF prev1 # NoScript /\ isWitnessScripthash(prev1)
         THEN c.wRedeem
         ELSE redeem1

getSubtype(self, c, coin) ==
  IF isCoinbase(self) THEN NoValue
  ELSE LET redeem == getRedeem(self, c, coin) IN
       IF redeem = NoScript THEN NoValue ELSE TypeName(redeem.type)

getAddress(self, c, coin) ==
  IF isCoinbase(self) THEN NoAddress
  ELSE IF coin.present THEN coin.address
  ELSE IF Len(self.witness) > 0 THEN c.wAddr
  ELSE c.sAddr

\* ------------------------------------------------------------ binary codec

getVarSize(script) == sizeVarint(Len(script)) + Len(script)

GetSizeNoPrefix(self) == 40 + Len(self.script)

getSize(self) == 40 + getVarSize(self.script)

toWriter(self) ==
  OutpointToRaw(self.prevout) \o writeVarBytes(self.script) \o writeU32(self.sequence)

toRaw(self) == toWriter(self)

FromReaderSequenceFirst(self, data) ==
  IF Len(data) < 32 THEN Throw(self)
  ELSE
    LET s0 == [self EXCEPT !.prevout.hash = ToHex(Take(data, 32))] IN
    IF Len(data) < 36 THEN Throw(s0)
    ELSE
      LET s1 == [s0 EXCEPT !.prevout.index = readU32(SubSeq(data, 33, 36)),
                           !.sequence = Num(0, 0)]
          vb == readVarBytes(Drop(data, 36))
      IN IF ~vb.ok THEN Throw(s1)
         ELSE
           LET s2 == [s1 EXCEPT !.script = vb.data]
               rest == Drop(data, 36 + vb.size)
           IN IF Len(rest) < 4 THEN Throw(s2)
              ELSE Ok([s2 EXCEPT !.sequence = readU32(Take(rest, 4))])

\* The fields are read, and assigned, in wire order; a read past the end of
\* the data throws and leaves what was assigned before it.
fromReader(self, data) ==
  IF Len(data) < 32 THEN Throw(self)
  ELSE
    LET s0 == [self EXCEPT !.prevout.hash = ToHex(Take(data, 32))] IN
    IF Len(data) < 36 THEN Throw(s0)
    ELSE
      LET s1 == [s0 EXCEPT !.prevout.index = readU32(SubSeq(data, 33, 36))]
          vb == readVarBytes(Drop(data, 36))
      IN IF ~vb.ok THEN Throw(s1)
         ELSE
           LET s2 == [s1 EXCEPT !.script = vb.data]
               rest == Drop(data, 36 + vb.size)
           IN IF Len(rest) < 4 THEN Throw(s2)
              ELSE Ok([s2 EXCEPT !.sequence = readU32(Take(rest, 4))])

fromRaw(self, data) == fromReader(self, data)

\* Input.fromRaw / Input.fromReader: a new Input filled from the data.
InputFromRaw(data) == fromRaw(NewInput, data)

\* -------------------------------------------------------------- JSON codec

NoJSONAddress == [net |-> "undefined", addr |-> NoAddress]

\* Address.toBase58(network).
toBase58(addr, network) == [net |-> network, addr |-> addr]

\* Network.get: the primary network when none is given.
NetworkGet(network) == IF network = "undefined" THEN "main" ELSE network

GetJSONDefaultSequence(self, c, network, coin) ==
  [present |-> TRUE,
   prevout |-> OutpointToJSON(self.prevout),
   script |-> [present |-> TRUE, hex |-> ToHex(self.script)],
   witness |-> [present |-> TRUE, hex |-> ToHex(WitnessToRaw(self.witness))],
   sequence |-> JsNum(U32_MAX),
   address |-> NoJSONAddress,
   coin |-> coin.present]

getJSON(self, c, network, coin) ==
  LET net == NetworkGet(network)
      address == IF coin.present THEN NoAddress ELSE getAddress(self, c, NoCoin)
  IN [present |-> TRUE,
      prevout |-> OutpointToJSON(self.prevout),
      script |-> [present |-> TRUE, hex |-> ToHex(self.script)],
      witness |-> [present |-> TRUE, hex |-> ToHex(WitnessToRaw(self.witness))],
      sequence |-> JsNum(self.sequence),
      address |-> IF address = NoAddress THEN NoJSONAddress ELSE toBase58(address, net),
      coin |-> coin.present]

\* toJSON takes a network and a coin and passes neither on.
toJSON(self, c, network, coin) == getJSON(self, c, "undefined", NoCoin)

fromJSON(self, json) ==
  IF ~json.present \/ ~isNumber(json.sequence) THEN Throw(self)
  ELSE IF ~json.prevout.present THEN Throw(self)
  ELSE
    LET s1 == [self EXCEPT !.prevout = OutpointFromJSON(json.prevout)] IN
    IF ~json.script.present THEN Throw(s1)
    ELSE
      LET s2 == [s1 EXCEPT !.script = FromHex(json.script.hex)] IN
      IF ~json.witness.present THEN Throw(s2)
      ELSE Ok([s2 EXCEPT !.witness = WitnessFromRaw(FromHex(json.witness.hex)),
                         !.sequence = json.sequence.val])

\* Input.fromJSON: a new Input filled from the object.
InputFromJSON(json) == fromJSON(NewInput, json)

\* ------------------------------------------------------- from coin, from tx

\* coin.hash is a hex string in every coin of the model; coin.index is any
\* JavaScript value.
fromCoin(self, coin) ==
  IF coin.index.kind # "number" THEN Throw(self)
  ELSE Ok([self EXCEPT !.prevout = Outpoint(coin.hash, coin.index.val)])

\* index < tx.outputs.length, as JavaScript compares: false unless index is a
\* number below the length.
fromTX(self, tx, index) ==
  IF ~(index.kind = "number" /\ NumLt(index.val, FromNat(tx.nout))) THEN Throw(self)
  ELSE Ok([self EXCEPT !.prevout = Outpoint(tx.hash, index.val)])

\* ------------------------------------------------------------ the inputs

\* One script of each short length, its bytes all different.
ShortScripts == {[i \in 1..k |-> 256 - i] : k \in 0..MaxScriptLen}

\* Scripts on either side of the first length whose prefix takes three bytes.
LongScripts == {[i \in 1..252 |-> 7], [i \in 1..253 |-> 7]}

Witnesses == {[i \in 1..k |-> <<i, 255>>] : k \in 0..MaxWitnessItems}

SeqNumbers ==
  {Num(0, 0), Num(65535, 65533), RBF_LIMIT, U32_MAX, Num(65536, 0)}

SeqArgs == {Absent, NotANumber, JsNum(Num(-1, 65535))} \cup {JsNum(v) : v \in SeqNumbers}

NoPrevoutOption == [present |-> FALSE, hash |-> NULL_HASH, index |-> U32_MAX]

NullPrevoutOption == [present |-> TRUE, hash |-> NULL_HASH, index |-> U32_MAX]

PrevoutOptionA == [present |-> TRUE, hash |-> HashA, index |-> Num(0, 0)]

NoScriptOption == [present |-> FALSE, raw |-> <<>>]

NoWitnessOption == [present |-> FALSE, items |-> <<>>]

NoOptions ==
  [present |-> FALSE, prevout |-> NoPrevoutOption, script |-> NoScriptOption,
   sequence |-> Absent, witness |-> NoWitnessOption]

Options(prevout, script, sequence, witness) ==
  [present |-> TRUE, prevout |-> prevout, script |-> script, sequence |-> sequence,
   witness |-> witness]

\* The options objects: none, one without a prevout, and a prevout alone or
\* with one more member.  A second call on the same Input adds to the first.
OptionsSet ==
  {NoOptions,
   Options(NoPrevoutOption, NoScriptOption, JsNum(Num(0, 0)), NoWitnessOption),
   Options(NullPrevoutOption, NoScriptOption, Absent, NoWitnessOption),
   Options(PrevoutOptionA, NoScriptOption, Absent, NoWitnessOption)}
  \cup {Options(PrevoutOptionA, [present |-> TRUE, raw |-> r], Absent, NoWitnessOption) :
          r \in (ShortScripts \ {<<>>}) \cup LongScripts}
  \cup {Options(PrevoutOptionA, NoScriptOption, a, NoWitnessOption) : a \in SeqArgs}
  \cup {Options(PrevoutOptionA, NoScriptOption, Absent, [present |-> TRUE, items |-> w]) :
          w \in Witnesses \ {<<>>}}

\* Coins and transactions handed to fromCoin and fromTX.
CoinRefs ==
  {[hash |-> HashA, index |-> JsNum(Num(0, 1))],
   [hash |-> HashA, index |-> NotANumber]}

Txs == {[hash |-> HashA, nout |-> n] : n \in 1..MaxOutputs}

IndexArgs ==
  {NotANumber, JsNum(Num(-1, 65535))} \cup {JsNum(FromNat(n)) : n \in 0..MaxOutputs}

\* Inputs whose encodings are handed to the decoders.
WireShort == Input(Outpoint(HashA, Num(0, 1)), <<255>>, Num(0, 0), <<>>)

WireLong == Input(Outpoint(HashA, Num(0, 0)), [i \in 1..253 |-> 7], RBF_LIMIT, <<>>)

WireInputs == {WireShort, WireLong}

WireRaw == [x \in WireInputs |-> toRaw(x)]

\* The lengths at which an encoding is cut: the start and the end, and both
\* sides of every boundary between two fields, with the inside of each field.
CutPoints(x) ==
  LET p == sizeVarint(Len(x.script))
      n == Len(x.script)
  IN {0, 32, 35, 36, 36 + p - 1, 36 + p, 36 + p + n - 1, 36 + p + n + 3,
      36 + p + n + 4}

\* What the Script and Witness capabilities answer for the input at hand.
ClsSet ==
  [sInputType : {NONSTANDARD, SCRIPTHASH, PUBKEYHASH},
   sShInput : BOOLEAN,
   sRedeem : {NoScript, P2WSHScript, MultisigScript},
   sAddr : {NoAddress, "addrS"},
   wInputType : {NONSTANDARD, WITNESSSCRIPTHASH},
   wShInput : BOOLEAN,
   wRedeem : {NoScript, MultisigScript},
   wAddr : {NoAddress, "addrW"}]

ClsPlain ==
  [sInputType |-> NONSTANDARD, sShInput |-> FALSE, sRedeem |-> NoScript,
   sAddr |-> NoAddress, wInputType |-> NONSTANDARD, wShInput |-> FALSE,
   wRedeem |-> NoScript, wAddr |-> NoAddress]

ClsAddressed == [ClsPlain EXCEPT !.sInputType = PUBKEYHASH, !.sAddr = "addrS", !.wAddr = "addrW"]

QueryCoins ==
  {NoCoin, Coin(P2SHScript, "addrC"), Coin(P2WSHScript, "addrC"), Coin(P2PKHScript, "addrC")}

ResolveInputs ==
  {Input(o, <<7>>, U32_MAX, w) : o \in {NewOutpoint, Outpoint(HashA, Num(0, 0))},
                                  w \in Witnesses}

\* JSON objects handed to fromJSON: what toJSON gives for a wire input, with
\* any sequence, and with a member or the whole object missing.
JSONSet ==
  LET j == toJSON(WireShort, ClsPlain, "undefined", NoCoin) IN
    {[j EXCEPT !.sequence = a] : a \in SeqArgs}
      \cup {[j EXCEPT !.present = FALSE], [j EXCEPT !.prevout.present = FALSE],
            [j EXCEPT !.script.present = FALSE], [j EXCEPT !.witness.present = FALSE]}

\* --------------------------------------------------------------- the state

\* No Input: the place of a result when a call gives none.
NoInput == Input(Outpoint(<<>>, Num(0, 0)), <<>>, Num(0, 0), <<>>)

\* The record of the last call: its name, whether it returned, and the
\* arguments and results the properties read.
LastNone ==
  [op |-> "none", ok |-> TRUE, a |-> Absent, nout |-> 0,
   where |-> "none", size |-> 0, len |-> 0, out |-> NoInput,
   fin |-> FALSE, rbf |-> FALSE,
   coin |-> NoCoin, ret |-> NoValue, redeem |-> NoScript]

Init ==
  /\ inp = NewInput
  /\ cls = ClsAddressed
  /\ last = LastNone

\* input.fromOptions(options); new Input(options) is this call on a new Input.
FromOptions(options) ==
  LET r == fromOptions(inp, options) IN
  /\ inp' = r.self
  /\ last' = [LastNone EXCEPT !.op = "fromOptions", !.ok = r.ok]
  /\ UNCHANGED cls

FromJSON(json) ==
  LET r == fromJSON(inp, json) IN
  /\ inp' = r.self
  /\ last' = [LastNone EXCEPT !.op = "fromJSON", !.ok = r.ok]
  /\ UNCHANGED cls

FromCoin(coin) ==
  LET r == fromCoin(inp, coin) IN
  /\ inp' = r.self
  /\ last' = [LastNone EXCEPT !.op = "fromCoin", !.ok = r.ok]
  /\ UNCHANGED cls

FromTX(tx, index) ==
  LET r == fromTX(inp, tx, index) IN
  /\ inp' = r.self
  /\ last' = [LastNone EXCEPT !.op = "fromTX", !.ok = r.ok, !.a = index,
                              !.nout = tx.nout]
  /\ UNCHANGED cls

\* Where the first k bytes of the encoding of x end.
CutWhere(x, k) ==
  LET p == sizeVarint(Len(x.script)) IN
  IF k >= Len(WireRaw[x]) THEN "none"
  ELSE IF k < 36 THEN "outpoint"
  ELSE IF k < 36 + p THEN "length"
  ELSE IF k < 36 + p + Len(x.script) THEN "script"
  ELSE "sequence"

\* input.fromRaw on the first k bytes of the encoding of x; Input.fromRaw is
\* this call on a new Input, which a throw leaves with no one.
Decode(x, k) ==
  LET r == fromRaw(inp, Take(WireRaw[x], k)) IN
  /\ inp' = r.self
  /\ last' = [LastNone EXCEPT !.op = "fromRaw", !.ok = r.ok,
                              !.where = CutWhere(x, k), !.out = x]
  /\ UNCHANGED cls

ToRaw ==
  /\ last' = [LastNone EXCEPT !.op = "toRaw", !.size = getSize(inp),
                              !.len = Len(toRaw(inp))]
  /\ UNCHANGED <<inp, cls>>

\* Input.fromRaw(input.toRaw()).
RawRoundTrip ==
  LET r == InputFromRaw(toRaw(inp)) IN
  /\ last' = [LastNone EXCEPT !.op = "rawRoundTrip", !.ok = r.ok,
                              !.out = IF r.ok THEN r.self ELSE NoInput]
  /\ UNCHANGED <<inp, cls>>

\* Input.fromJSON(input.toJSON(network, coin)).
JSONRoundTrip(network, coin) ==
  LET r == InputFromJSON(toJSON(inp, cls, network, coin)) IN
  /\ last' = [LastNone EXCEPT !.op = "jsonRoundTrip", !.ok = r.ok,
                              !.out = IF r.ok THEN r.self ELSE NoInput,
                              !.coin = coin]
  /\ UNCHANGED <<inp, cls>>

Finality ==
  /\ last' = [LastNone EXCEPT !.op = "finality", !.fin = isFinal(inp), !.rbf = isRBF(inp)]
  /\ UNCHANGED <<inp, cls>>

Next ==
  \/ \E options \in OptionsSet : FromOptions(options)
  \/ \E json \in JSONSet : FromJSON(json)
  \/ \E coin \in CoinRefs : FromCoin(coin)
  \/ \E tx \in Txs, index \in IndexArgs : FromTX(tx, index)
  \/ \E x \in WireInputs : \E k \in CutPoints(x) : Decode(x, k)
  \/ ToRaw
  \/ RawRoundTrip
  \/ \E coin \in {NoCoin, Coin(P2PKHScript, "addrC")} : JSONRoundTrip("testnet", coin)
  \/ Finality

Spec == Init /\ [][Next]_vars

\* ------------------------------------------------- the resolution queries

InitResolve ==
  /\ inp \in ResolveInputs
  /\ cls \in ClsSet
  /\ last = LastNone

GetType(coin) ==
  /\ last' = [LastNone EXCEPT !.op = "getType", !.coin = coin,
                              !.ret = getType(inp, cls, coin)]
  /\ UNCHANGED <<inp, cls>>

GetRedeem(coin) ==
  /\ last' = [LastNone EXCEPT !.op = "getRedeem", !.coin = coin,
                              !.redeem = getRedeem(inp, cls, coin)]
  /\ UNCHANGED <<inp, cls>>

GetSubtype(coin) ==
  /\ last' = [LastNone EXCEPT !.op = "getSubtype", !.coin = coin,
                              !.ret = getSubtype(inp, cls, coin)]
  /\ UNCHANGED <<inp, cls>>

GetAddress(coin) ==
  /\ last' = [LastNone EXCEPT !.op = "getAddress", !.coin = coin,
                              !.ret = getAddress(inp, cls, coin)]
  /\ UNCHANGED <<inp, cls>>

NextResolve ==
  \/ \E coin \in QueryCoins : GetType(coin)
  \/ \E coin \in QueryCoins : GetRedeem(coin)
  \/ \E coin \in QueryCoins : GetSubtype(coin)
  \/ \E coin \in QueryCoins : GetAddress(coin)

SpecResolve == InitResolve /\ [][NextResolve]_vars

\* ---------------------------------------------------------- properties

\* The lowercase name of each type tag, written out.
LowerName(tag) ==
  CASE tag = NONSTANDARD -> "nonstandard"
    [] tag = PUBKEYHASH -> "pubkeyhash"
    [] tag = SCRIPTHASH -> "scripthash"
    [] tag = MULTISIG -> "multisig"
    [] tag = WITNESSSCRIPTHASH -> "witnessscripthash"

\* The case of C1: getRedeem(coin) on an input that is not a coinbase, with a
\* script-hash coin and a script whose getRedeem() gives a script.
C1_Case ==
  /\ last.op = "getRedeem"
  /\ ~(inp.prevout.hash = NULL_HASH /\ inp.prevout.index = U32_MAX)
  /\ last.coin.present
  /\ last.coin.script.type = SCRIPTHASH
  /\ cls.sRedeem # NoScript

C2_CoinbaseShortCircuit ==
  (inp.prevout.hash = NULL_HASH /\ inp.prevout.index = U32_MAX) =>
    /\ last.op = "getType" => last.ret = "coinbase"
    /\ last.op = "getRedeem" => last.redeem = NoScript
    /\ last.op = "getSubtype" => last.ret = NoValue
    /\ last.op = "getAddress" => last.ret = NoAddress

\* A coinbase input with a witness, asked its type with a coin at hand.
C2_Witness ==
  /\ inp.prevout.hash = NULL_HASH /\ inp.prevout.index = U32_MAX
  /\ Len(inp.witness) > 0
  /\ cls.wInputType = WITNESSSCRIPTHASH /\ cls.sAddr # NoAddress
  /\ last.op = "getType" /\ last.coin.present /\ last.ret = "coinbase"

\* C3: on an input that is not a coinbase getType(coin) is the type of the
\* coin when one is given, else the name of the witness's input type when the
\* witness has an item, and of the script's input type when it has none.
C3_TypePrecedence ==
  (last.op = "getType" /\ ~(inp.prevout.hash = NULL_HASH /\ inp.prevout.index = U32_MAX)) =>
    last.ret = IF last.coin.present THEN LowerName(last.coin.script.type)
               ELSE IF Len(inp.witness) >= 1 THEN LowerName(cls.wInputType)
               ELSE LowerName(cls.sInputType)

\* No coin, a witness with an item, and a script that would answer otherwise.
C3_Witness ==
  /\ last.op = "getType" /\ ~last.coin.present
  /\ inp.prevout.hash # NULL_HASH
  /\ Len(inp.witness) >= 1
  /\ cls.wInputType = WITNESSSCRIPTHASH /\ cls.sInputType = PUBKEYHASH
  /\ last.ret = "witnessscripthash"

\* C4 as stated: decoding the encoding of an input that is not a coinbase
\* gives back its prevout hash and index, its script and its sequence.
C4_RawRoundTrip ==
  (last.op = "rawRoundTrip" /\ ~(inp.prevout.hash = NULL_HASH /\ inp.prevout.index = U32_MAX)) =>
    /\ last.ok
    /\ last.out.prevout.hash = inp.prevout.hash
    /\ last.out.prevout.index = inp.prevout.index
    /\ last.out.script = inp.script
    /\ last.out.sequence = inp.sequence

\* C5 as stated: the sequence of an Input is an integer in 0..0xffffffff
\* after every construction.
C5_SequenceIsUInt32 == inp.sequence[1] >= 0 /\ inp.sequence[1] <= 65535

\* C6: getSize() is the number of bytes toRaw writes: 36 of outpoint, the
\* length prefix and the script, and 4 of sequence.
C6_SizeIsLength ==
  last.op = "toRaw" =>
    /\ last.size = last.len
    /\ last.len = 36 + (IF Len(inp.script) < 253 THEN 1 ELSE 3) + Len(inp.script) + 4

\* A script long enough for a three-byte prefix.
C6_Witness ==
  /\ last.op = "toRaw"
  /\ Len(inp.script) = 253
  /\ last.size = 296 /\ last.len = 296

\* C7 as stated: a decode of a truncated buffer fails and leaves no Input
\* with some of prevout, script and sequence taken from the buffer.
C7_Original ==
  [][(last'.op = "fromRaw" /\ last'.where # "none") =>
       /\ ~last'.ok
       /\ inp'.prevout = inp.prevout
       /\ inp'.script = inp.script
       /\ inp'.sequence = inp.sequence]_vars

\* C7 amended: a decode of a truncated buffer fails, so that Input.fromRaw
\* returns no Input; the sequence (and the witness) of the Input the method
\* was called on is never assigned, but its fields are assigned in wire order
\* as they are read: a cut after the outpoint leaves the prevout of the
\* buffer, and a cut inside the sequence leaves the script of the buffer too.
C7_Amended ==
  [][(last'.op = "fromRaw" /\ last'.where # "none") =>
       /\ ~last'.ok
       /\ inp'.sequence = inp.sequence
       /\ inp'.witness = inp.witness
       /\ last'.where \in {"outpoint", "length", "script"} => inp'.script = inp.script
       /\ last'.where = "outpoint" => inp'.prevout.index = inp.prevout.index
       /\ last'.where \in {"length", "script", "sequence"} =>
            inp'.prevout = last'.out.prevout
       /\ last'.where = "sequence" => inp'.script = last'.out.script]_vars

\* A buffer cut inside the script, decoded into an existing Input: the call
\* failed, the prevout is the buffer's and the script is not.
C7_Witness ==
  /\ last.op = "fromRaw" /\ last.where = "script" /\ ~last.ok
  /\ inp.prevout = last.out.prevout
  /\ inp.script # last.out.script
  /\ inp.sequence # last.out.sequence

\* C8 as stated: fromTX succeeds only when 0 <= index < tx.outputs.length.
C8_FromTXInRange ==
  (last.op = "fromTX" /\ last.ok) =>
    /\ last.a.kind = "number"
    /\ last.a.val[1] >= 0
    /\ last.a.val[1] = 0 /\ last.a.val[2] < last.nout

\* C9: for a 32-bit sequence isFinal is sequence = 0xffffffff, isRBF is
\* sequence < 0xfffffffe, never both, and neither only at 0xfffffffe.
C9_FinalAndRBF ==
  (last.op = "finality" /\ inp.sequence[1] \in 0..65535) =>
    /\ last.fin <=> (inp.sequence[1] = 65535 /\ inp.sequence[2] = 65535)
    /\ last.rbf <=> (inp.sequence[1] < 65535
                       \/ (inp.sequence[1] = 65535 /\ inp.sequence[2] < 65534))
    /\ ~(last.fin /\ last.rbf)
    /\ (~last.fin /\ ~last.rbf) <=> (inp.sequence[1] = 65535 /\ inp.sequence[2] = 65534)

\* The boundary: 0xfffffffe is neither final nor replaceable.
C9_Witness ==
  /\ last.op = "finality"
  /\ inp.sequence = Num(65535, 65534)
  /\ ~last.fin /\ ~last.rbf

\* C10: fromJSON(toJSON(i)) succeeds and gives the prevout, script, witness
\* and sequence of i.
C10_JSONRoundTrip ==
  last.op = "jsonRoundTrip" =>
    /\ last.ok
    /\ last.out.prevout = inp.prevout
    /\ last.out.script = inp.script
    /\ last.out.witness = inp.witness
    /\ last.out.sequence = inp.sequence

\* An input with a hash, a script, a witness and a sequence of its own, with
\* an address to derive and a coin passed.
C10_Witness ==
  /\ last.op = "jsonRoundTrip" /\ last.ok /\ last.coin.present
  /\ inp.prevout.hash = HashA
  /\ Len(inp.script) > 0 /\ Len(inp.witness) > 0
  /\ inp.sequence = Num(0, 0)
  /\ cls.wAddr # NoAddress
  /\ last.out = inp

====
